---- MODULE Spec2Model ----
(***************************************************************************)
(* Model of the code that the cbit! procedural macro generates             *)
(* (src/src/lib.rs, fn cbit) and of its execution: the driver call, the    *)
(* external callback-style iterator, the relay closure with its layered    *)
(* body (innermost absorber plus one absorber per declared external        *)
(* label), the single poll of the async block, and the final dispatch.     *)
(*                                                                         *)
(* One execution of the model is one execution of an enclosing function    *)
(* containing one cbit! expansion.  The macro input (labels, iterator      *)
(* call, body) is chosen in Init and never changes.                        *)
(***************************************************************************)
EXTENDS Integers, Sequences, FiniteSets, TLC

\* ------------------------------------------------------------------------
\* Bounds of the model
\* ------------------------------------------------------------------------
MaxN == 5          \* up_to(n) is explored for n in 0..MaxN
MaxGen == 3        \* ... and for n in 0..MaxGen when labels are declared
MaxLen == 2        \* reduce(0, list) is explored for lists of length <= MaxLen
MaxLabels == 2     \* at most this many external labels in the break clause
MaxInv == 2        \* executions of the construct by an enclosing native loop
MaxSib == 1        \* sibling expansions that follow the first one
MaxToks == 4       \* tokens of a break clause after the `break` keyword
MaxArgs == 2       \* explicit arguments, and attributes, of the call after `in`

\* ------------------------------------------------------------------------
\* Values
\* ------------------------------------------------------------------------
\* The single value of the unit type `()`.
UnitVal == 0

\* Elements of the slices handed to reduce.
ElemVals == {1, 2, 101}
\* Elements of the slices handed to reduce under a generic body, which does
\* not look at them.
GenElemVals == {4}
\* Values a generic body hands back for an element on a reduce iterator.
CompVals == {3, 5}
\* Values a generic body passes to a native `return`.
RetVals == {90, 91}
\* Values a generic body passes to `break 'label value` for an external label.
LabelVals == {10, 11}
\* Values a generic body passes to `break value` of the virtual loop (reduce).
BreakVals == {-1, 7}

\* Names of external labels and of the virtual loop's own label.
LabelNames == {"X", "Y"}
LoopLabels == {"", "me"}

\* Option<T>: None is the empty sequence, Some(x) the one-element sequence.
None == <<>>
Some(x) == <<x>>

\* core::ops::ControlFlow<OurControlFlowResult<..>, EarlyBreak>, flattened:
\* cf is "Continue" or "Break"; tag names the variant of the break payload.
Cont(v) == [cf |-> "Continue", tag |-> "", lt |-> "", val |-> v]
Brk(tag, lt, v) == [cf |-> "Break", tag |-> tag, lt |-> lt, val |-> v]

\* Poll<T>
PollNone == [p |-> "none", val |-> 0]
PollPending == [p |-> "Pending", val |-> 0]
PollReady(v) == [p |-> "Ready", val |-> v]

\* What the expansion site does after the final match.
Outcome(kind, lt, v) == [kind |-> kind, lt |-> lt, val |-> v]
NoOutcome == Outcome("none", "", 0)

VARIABLES
  input,      \* the macro input and the iterator's arguments
  pc,         \* position of the execution
  inv,        \* how many times the construct has been executed
  idx,        \* iterator: index of the next element
  accum,      \* iterator: reduce's accumulator
  arg,        \* the argument of the current callback invocation
  body_input, \* __cbit_internal_body_input
  slot,       \* __cbit_internal_how_to_resolve_pending
  did_run,    \* __cbit_internal_did_run, one per layer
  cur,        \* the layer control is in (0 = innermost absorber)
  val,        \* __cbit_internal_break_result / __cbit_internal_end_result
  pollres,    \* result of Future::poll
  polls,      \* polls of the async block in this callback invocation
  cbres,      \* value the relay closure returns to the iterator
  result,     \* __cbit_internal_result
  outcome,    \* what the dispatch did
  acc,        \* a variable of the enclosing function the body adds to
  log,        \* per delivered element: element, body action, closure result
  sib,        \* the sibling expansions that ran before this one
  ps          \* the parser: the tokens, its position and what it has parsed

vars == <<input, pc, inv, idx, accum, arg, body_input, slot, did_run, cur,
          val, pollres, polls, cbres, result, outcome, acc, log, sib, ps>>


\* ------------------------------------------------------------------------
\* The macro input (syntax.rs, CbitForExpr)
\* ------------------------------------------------------------------------
\* CbitForExprSingleBreak: an optional `loop` keyword and a lifetime.
SingleBreak == [lt : LabelNames, kw_loop : BOOLEAN]

RECURSIVE SeqsUpTo(_, _)
SeqsUpTo(S, n) ==
  IF n = 0 THEN {<<>>}
  ELSE LET shorter == SeqsUpTo(S, n - 1)
       IN shorter \cup {Append(q, x) : q \in {r \in shorter : Len(r) = n - 1}, x \in S}

\* in_break_labels: the `lt` list of the break clause, empty without one.
\* Only lists with pairwise distinct lifetimes give an expansion that
\* compiles (each lifetime names an enum variant and a native label).
LabelLists ==
  {q \in SeqsUpTo(SingleBreak, MaxLabels) :
     \A i, j \in 1..Len(q) : q[i].lt = q[j].lt => i = j}

\* The elements up_to(n) delivers: `for i in 0..n`.
UpToElems(n) == [i \in 1..n |-> i - 1]

\* Default::default() of the closure's Continue type.
Default(iter) == IF iter = "up_to" THEN UnitVal ELSE 0

\* Lifetimes the body may `break` to, besides the virtual loop.
BreakTargets(labels) == {labels[i].lt : i \in 1..Len(labels)}
\* Lifetimes the body may `continue` to, besides the virtual loop.
ContinueTargets(labels) ==
  {labels[i].lt : i \in {j \in 1..Len(labels) : labels[j].kw_loop}}
\* Ways of naming the virtual loop in a jump: no label, or its own label.
SelfTargets(label) == IF label = "" THEN {""} ELSE {"", label}

\* Layers whose labels all sit on the layer of the label declared first.
TargetLayerFirstDeclared(in, l) ==
  IF l = "" \/ l = in.label THEN 0 ELSE 1

\* The absorber layer a jump to lifetime l resolves to: the innermost
\* absorber's loop carries the optional loop label and catches unlabeled
\* jumps; the layer of the i-th declared label carries that label.
TargetLayer(in, l) ==
  IF l = "" \/ l = in.label THEN 0
  ELSE CHOOSE i \in 1..Len(in.labels) : in.labels[i].lt = l

\* ------------------------------------------------------------------------
\* The escape reasons (control_flow_enum_def) and the dispatch arms
\* ------------------------------------------------------------------------
\* A variant of the generated enum: EarlyReturn, EarlyBreak,
\* EarlyBreakTo_<label> (tag "BreakTo") or EarlyContinueTo_<label> (tag
\* "ContinueTo").
Variant(tag, lt) == [tag |-> tag, lt |-> lt]

HasKwLoop(entry) == entry.kw_loop

\* break_variant_names: one per declared label, in order.
BreakVariantNames(labels) ==
  [i \in 1..Len(labels) |-> Variant("BreakTo", labels[i].lt)]

\* continue_variant_names: one per label declared with `loop`, in order.
ContinueVariantNames(labels) ==
  LET loops == SelectSeq(labels, HasKwLoop)
  IN [i \in 1..Len(loops) |-> Variant("ContinueTo", loops[i].lt)]

\* An enum with a continue variant for every declared label.
ControlFlowEnumNoLoopFilter(labels) ==
  <<Variant("EarlyReturn", ""), Variant("EarlyBreak", "")>>
    \o BreakVariantNames(labels)
    \o [i \in 1..Len(labels) |-> Variant("ContinueTo", labels[i].lt)]

\* The variants of the generated enum, in declaration order.
ControlFlowEnum(labels) ==
  <<Variant("EarlyReturn", ""), Variant("EarlyBreak", "")>>
    \o BreakVariantNames(labels)
    \o ContinueVariantNames(labels)

\* The patterns of the final match's inner arms, in order: EarlyReturn,
\* EarlyBreak, break_out_matchers, continue_out_matchers.
DispatchArms(labels) ==
  <<Variant("EarlyReturn", ""), Variant("EarlyBreak", "")>>
    \o BreakVariantNames(labels)
    \o ContinueVariantNames(labels)

\* ------------------------------------------------------------------------
\* The body (an opaque token stream spliced into the innermost absorber)
\* ------------------------------------------------------------------------
\* One run of the body on one element ends in one action: k is the kind
\* ("complete" with the body's value, "return", "break", "continue", or
\* "await" of a future that is not ready), lt the label named by a jump
\* ("" for none), val the value carried, eff what the body added to `acc`
\* before it got there.
Act(k, lt, v, eff) == [k |-> k, lt |-> lt, val |-> v, eff |-> eff]

\* A body that may do anything the declared labels allow.  A jump leaves
\* before the element is added to acc; a completion adds it.
GenericActs(in, a) ==
  LET unit == in.iter = "up_to" IN
         {Act("complete", "", v, a.value) :
            v \in IF unit THEN {UnitVal} ELSE CompVals}
    \cup {Act("return", "", v, 0) : v \in RetVals}
    \cup {Act("break", l, v, 0) :
            l \in SelfTargets(in.label),
            v \in IF unit THEN {UnitVal} ELSE BreakVals}
    \cup {Act("break", l, v, 0) : l \in BreakTargets(in.labels), v \in LabelVals}
    \cup {Act("continue", l, 0, 0) :
            l \in SelfTargets(in.label) \cup ContinueTargets(in.labels)}
    \cup {Act("await", "", 0, 0)}

\* examples/asm.rs: `c += i;`
SumActs(a) == {Act("complete", "", UnitVal, a.value)}

\* lib.rs doc test: `if i == 2 { continue 'me; } c += i; if c > 5 { break; }`
DocMeActs(in, a, c) ==
  IF a.value = 2 THEN {Act("continue", in.label, 0, 0)}
  ELSE IF c + a.value > 5 THEN {Act("break", "", UnitVal, a.value)}
  ELSE {Act("complete", "", UnitVal, a.value)}

\* examples/interactive.rs: `if *value > 100 { break -1; } accum + value`
ReduceDemoActs(a) ==
  IF a.value > 100 THEN {Act("break", "", -1, 0)}
  ELSE {Act("complete", "", a.accum + a.value, 0)}

BodyActs(in, a, c) ==
  CASE in.body = "generic" -> GenericActs(in, a)
    [] in.body = "sum" -> SumActs(a)
    [] in.body = "doc_me" -> DocMeActs(in, a, c)
    [] in.body = "reduce_demo" -> ReduceDemoActs(a)

\* The inputs explored.
Inputs ==
       {[label |-> l, labels |-> q, iter |-> "up_to", elems |-> UpToElems(n),
         init |-> UnitVal, body |-> "generic"] :
          l \in LoopLabels, q \in LabelLists, n \in 0..MaxGen}
  \cup {[label |-> "", labels |-> <<>>, iter |-> "up_to",
         elems |-> UpToElems(n), init |-> UnitVal, body |-> "generic"] :
          n \in 0..MaxN}
  \cup {[label |-> l, labels |-> q, iter |-> "up_to", elems |-> UpToElems(n),
         init |-> UnitVal, body |-> "sum"] :
          l \in LoopLabels, q \in LabelLists, n \in 0..MaxN}
  \cup {[label |-> "me", labels |-> <<>>, iter |-> "up_to",
         elems |-> UpToElems(n), init |-> UnitVal, body |-> "doc_me"] :
          n \in 0..MaxN}
  \cup {[label |-> l, labels |-> q, iter |-> "reduce", elems |-> e,
         init |-> 0, body |-> "generic"] :
          l \in LoopLabels, q \in LabelLists, e \in SeqsUpTo(GenElemVals, MaxLen)}
  \cup {[label |-> l, labels |-> q, iter |-> "reduce", elems |-> e,
         init |-> 0, body |-> "reduce_demo"] :
          l \in LoopLabels, q \in LabelLists, e \in SeqsUpTo(ElemVals, MaxLen)}

NumLayers == Len(input.labels)

\* ------------------------------------------------------------------------
\* The parser (syntax.rs)
\* ------------------------------------------------------------------------
\* Tokens.  "label" is a loop label with its colon, "pat" a pattern, "body"
\* a brace group; an expression is one token naming its shape.  "call" is
\* Expr::Call, "mcall" Expr::MethodCall; "try" (`f()?`), "paren" (`(f())`)
\* and "lit" stand for the shapes that are neither and that end before
\* the next token.
Lifetimes == {"'X", "'Y"}
ExprShapes == {"call", "mcall", "try", "paren", "lit"}
ClauseToks == {"loop", ","} \cup Lifetimes

LifetimeName(tok) == IF tok = "'X" THEN "X" ELSE "Y"

\* What a macro invocation is written from: an optional loop label, the
\* expression after `in`, the tokens between that expression and the body.
Stream(src) ==
  (IF src.label THEN <<"label">> ELSE <<>>)
    \o <<"for", "pat", "in", src.expr>> \o src.clause \o <<"body">>

Prefixes(q) == {SubSeq(q, 1, n) : n \in 0..Len(q)}

\* The parts of the expression after `in` (ExprCall: attrs, func, args;
\* ExprMethodCall: attrs, receiver, method, turbofish, args).
ArgToks == {"n", "list"}
AttrToks == {"attr_a", "attr_b"}

\* `up_to(n)` (examples/asm.rs) and `Demo.method::<_>()` (examples/method.rs).
DefaultSite(e) ==
  IF e = "mcall"
    THEN [attrs |-> <<>>, func |-> "", receiver |-> "Demo", method |-> "method",
          turbo |-> "::<_>", args |-> <<>>]
    ELSE [attrs |-> <<>>, func |-> "up_to", receiver |-> "", method |-> "",
          turbo |-> "", args |-> <<"n">>]

Canonical ==
  [label |-> TRUE, expr |-> "call", clause |-> <<"break", "loop", "'X", ",", "'Y">>,
   site |-> DefaultSite("call")]

\* Any tokens where a break clause may stand, after either call shape.
ClauseSources ==
  {[label |-> l, expr |-> e, clause |-> k \o q, site |-> DefaultSite(e)] :
     l \in BOOLEAN, e \in {"call", "mcall"}, k \in {<<>>, <<"break">>},
     q \in SeqsUpTo(ClauseToks, MaxToks)}

\* Every expression shape, with and without a break clause.
ShapeSources ==
  {[label |-> l, expr |-> e, clause |-> c, site |-> DefaultSite(e)] :
     l \in BOOLEAN, e \in ExprShapes, c \in {<<>>, <<"break", "'X">>}}

\* Calls of both shapes with any attributes and explicit arguments.
CallSources ==
       {[label |-> FALSE, expr |-> "call", clause |-> <<>>,
         site |-> [attrs |-> t, func |-> "up_to", receiver |-> "", method |-> "",
                   turbo |-> "", args |-> a]] :
          t \in SeqsUpTo(AttrToks, MaxArgs), a \in SeqsUpTo(ArgToks, MaxArgs)}
  \cup {[label |-> FALSE, expr |-> "mcall", clause |-> <<>>,
         site |-> [attrs |-> t, func |-> "", receiver |-> "Demo",
                   method |-> "method", turbo |-> g, args |-> a]] :
          t \in SeqsUpTo(AttrToks, MaxArgs), a \in SeqsUpTo(ArgToks, MaxArgs),
          g \in {"", "::<_>"}}

\* No call expression is parsed (yet).
NoSite ==
  [attrs |-> <<>>, func |-> "", receiver |-> "", method |-> "", turbo |-> "",
   args |-> <<>>]

\* The state of the parser before the first token: nothing is parsed.
\* `whole` says that toks is the stream written from src.
ParseStart(src, toks) ==
  [toks |-> toks, src |-> src, whole |-> toks = Stream(src), pos |-> 1,
   stage |-> "label", label |-> FALSE, call |-> "", expr |-> NoSite,
   breaks |-> None, kw_break |-> FALSE, body |-> FALSE, err |-> "", at |-> "",
   out |-> None]

ParseInputs ==
       {ParseStart(s, Stream(s)) :
          s \in ClauseSources \cup ShapeSources \cup CallSources}
  \cup {ParseStart(Canonical, t) : t \in Prefixes(Stream(Canonical))}
  \cup {ParseStart(Canonical, Stream(Canonical) \o <<x>>) : x \in {"body", ","}}

\* No macro input is being parsed.
NoParse == ParseStart(Canonical, <<>>)

\* ParseStream::peek / parse of one token.
Peek(p) == IF p.pos <= Len(p.toks) THEN p.toks[p.pos] ELSE "eof"
Advance(p) == [p EXCEPT !.pos = @ + 1]
\* `?`: the error leaves the parser; `at` is the component that failed.
Fail(p, msg) == [p EXCEPT !.stage = "err", !.err = msg, !.at = p.stage]

\* The execution before the driver call.
InitRun ==
  /\ input \in Inputs
  /\ pc = "call"
  /\ inv = 0
  /\ idx = 1
  /\ accum = 0
  /\ arg = [accum |-> 0, value |-> 0]
  /\ body_input = None
  /\ slot = None
  /\ did_run = [i \in 0..MaxLabels |-> FALSE]
  /\ cur = 0
  /\ val = 0
  /\ pollres = PollNone
  /\ polls = 0
  /\ cbres = Cont(0)
  /\ result = Cont(0)
  /\ outcome = NoOutcome
  /\ acc = 0
  /\ log = <<>>
  /\ sib = <<>>

Init == InitRun /\ ps = NoParse


\* ------------------------------------------------------------------------
\* The driver call and the external iterator (up_to, reduce)
\* ------------------------------------------------------------------------
\* driver_call_site: `let result: ControlFlow<_, ..> = f(args.., closure);`
\* The iterator starts with its loop variable at the first element and, for
\* reduce, `accum = initial`.
DriverCall ==
  /\ pc = "call"
  /\ pc' = "iter"
  /\ inv' = inv + 1
  /\ idx' = 1
  /\ accum' = input.init
  /\ log' = <<>>
  /\ outcome' = NoOutcome
  /\ UNCHANGED <<input, sib, ps, arg, body_input, slot, did_run, cur, val, pollres,
                 polls, cbres, result, acc>>

\* A reduce that hands the callback its initial value every time.
CallbackArgInitial(in, a, e) ==
  IF in.iter = "up_to" THEN [accum |-> UnitVal, value |-> e]
  ELSE [accum |-> in.init, value |-> e]

\* What the iterator passes to the callback: up_to passes `i`, reduce passes
\* `(accum, value)`.
CallbackArg(in, a, e) ==
  IF in.iter = "up_to" THEN [accum |-> UnitVal, value |-> e]
  ELSE [accum |-> a, value |-> e]

\* `for .. { f(..)?; }`: the next element is handed to the callback.
IterDeliver ==
  /\ pc = "iter"
  /\ idx <= Len(input.elems)
  /\ arg' = CallbackArg(input, accum, input.elems[idx])
  /\ pc' = "closure"
  /\ UNCHANGED <<input, sib, ps, inv, idx, accum, body_input, slot, did_run, cur, val,
                 pollres, polls, cbres, result, outcome, acc, log>>

\* The iterator's own result once its loop is exhausted:
\* `ControlFlow::Continue(())` for up_to, `ControlFlow::Continue(accum)` for
\* reduce.
IterFinalResult(in, a) == IF in.iter = "up_to" THEN Cont(UnitVal) ELSE Cont(a)

IterFinish ==
  /\ pc = "iter"
  /\ idx > Len(input.elems)
  /\ result' = IterFinalResult(input, accum)
  /\ pc' = "dispatch"
  /\ UNCHANGED <<input, sib, ps, inv, idx, accum, arg, body_input, slot, did_run, cur,
                 val, pollres, polls, cbres, outcome, acc, log>>

\* `f(i)?` / `accum = f((accum, value))?`: a Break is returned at once,
\* a Continue value is dropped (up_to) or becomes the accumulator (reduce).
IterRecv ==
  /\ pc = "ret"
  /\ IF cbres.cf = "Break"
       THEN /\ result' = cbres
            /\ pc' = "dispatch"
            /\ UNCHANGED <<idx, accum>>
       ELSE /\ accum' = IF input.iter = "up_to" THEN accum ELSE cbres.val
            /\ idx' = idx + 1
            /\ pc' = "iter"
            /\ UNCHANGED result
  /\ UNCHANGED <<input, sib, ps, inv, arg, body_input, slot, did_run, cur, val, pollres,
                 polls, cbres, outcome, acc, log>>

\* ------------------------------------------------------------------------
\* The relay closure
\* ------------------------------------------------------------------------
\* A closure whose slot is not its own fresh local.
ClosurePrologueKeepsSlot ==
  /\ pc = "closure"
  /\ body_input' = Some(arg)
  /\ polls' = 0
  /\ pollres' = PollNone
  /\ pc' = "poll"
  /\ UNCHANGED <<input, sib, ps, inv, idx, accum, arg, slot, did_run, cur, val,
                 cbres, result, outcome, acc, log>>

\* `let mut body_input = Some(body_input); let mut how_to_resolve_pending =
\* None;` and the construction of the pinned async block.
ClosurePrologue ==
  /\ pc = "closure"
  /\ body_input' = Some(arg)
  /\ slot' = None
  /\ polls' = 0
  /\ pollres' = PollNone
  /\ pc' = "poll"
  /\ UNCHANGED <<input, sib, ps, inv, idx, accum, arg, did_run, cur, val, cbres, result,
                 outcome, acc, log>>

\* Future::poll(body, ..): the async block starts running at its outermost
\* layer (the layer of the label declared last).
Poll ==
  /\ pc = "poll"
  /\ polls' = polls + 1
  /\ cur' = NumLayers
  /\ pc' = "enter"
  /\ UNCHANGED <<input, sib, ps, inv, idx, accum, arg, body_input, slot, did_run, val,
                 pollres, cbres, result, outcome, acc, log>>

\* Whether a layer is a `loop` (the innermost absorber and the absorbers of
\* labels declared with `loop`) or a plain labeled block.
IsLoopLayer(in, layer) == layer = 0 \/ in.labels[layer].kw_loop

\* Layers whose did_run flags live outside the closure and are never reset.
EnterLayerKeepsFlag ==
  /\ pc = "enter"
  /\ IF IsLoopLayer(input, cur)
       THEN /\ pc' = "loop"
            /\ UNCHANGED cur
       ELSE /\ cur' = cur - 1
            /\ UNCHANGED pc
  /\ UNCHANGED <<input, sib, ps, inv, idx, accum, arg, body_input, slot, did_run, val,
                 pollres, polls, cbres, result, outcome, acc, log>>

\* Entry into a layer: a loop layer declares `let mut did_run = false` and
\* goes to its loop head; a block layer goes straight into what it wraps.
EnterLayer ==
  /\ pc = "enter"
  /\ IF IsLoopLayer(input, cur)
       THEN /\ did_run' = [did_run EXCEPT ![cur] = FALSE]
            /\ pc' = "loop"
            /\ UNCHANGED cur
       ELSE /\ cur' = cur - 1
            /\ UNCHANGED <<did_run, pc>>
  /\ UNCHANGED <<input, sib, ps, inv, idx, accum, arg, body_input, slot, val, pollres,
                 polls, cbres, result, outcome, acc, log>>

\* Break layers whose aborters were all built with the variant of the label
\* declared first.
BreakResolutionFirstLabel(in, layer, v) ==
  IF layer = 0 THEN Brk("EarlyBreak", "", v)
  ELSE Brk("BreakTo", in.labels[1].lt, v)

\* An innermost absorber that reports a break of the virtual loop as a
\* normal completion of the element.
BreakResolutionAsContinue(in, layer, v) ==
  IF layer = 0 THEN Cont(v)
  ELSE Brk("BreakTo", in.labels[layer].lt, v)

\* The resolution a layer's break_aborter records: the innermost absorber
\* records EarlyBreak, the layer of a label records that label's variant.
BreakResolution(in, layer, v) ==
  IF layer = 0 THEN Brk("EarlyBreak", "", v)
  ELSE Brk("BreakTo", in.labels[layer].lt, v)

\* A continue_aborter built with the break variant's name.
ContinueResolutionAsBreak(in, layer) == Brk("BreakTo", in.labels[layer].lt, 0)

\* The resolution a loop-capable layer's continue_aborter records.
ContinueResolution(in, layer) == Brk("ContinueTo", in.labels[layer].lt, 0)

\* A termination_aborter that drops the body's value.
TerminationResolutionDropsValue(v) == Cont(0)

\* The resolution the termination_aborter records.
TerminationResolution(v) == Cont(v)

\* Head of a layer's loop, first pass: `did_run = true`, then the innermost
\* absorber takes the element (`body_input.take().unwrap()`, which panics
\* on an empty holder) and runs the body, an outer layer enters the layer
\* it wraps.
LoopFirstPass ==
  /\ pc = "loop"
  /\ ~did_run[cur]
  /\ did_run' = [did_run EXCEPT ![cur] = TRUE]
  /\ IF cur = 0
       THEN /\ body_input' = None
            /\ pc' = IF body_input = None THEN "unwrap_failed" ELSE "body"
            /\ UNCHANGED cur
       ELSE /\ cur' = cur - 1
            /\ pc' = "enter"
            /\ UNCHANGED body_input
  /\ UNCHANGED <<input, sib, ps, inv, idx, accum, arg, slot, val, pollres, polls, cbres,
                 result, outcome, acc, log>>

\* Loops without the did_run test: a re-entered loop runs its first pass
\* again.
LoopReentryRunsAgain ==
  /\ pc = "loop"
  /\ did_run[cur]
  /\ IF cur = 0
       THEN /\ body_input' = None
            /\ pc' = IF body_input = None THEN "unwrap_failed" ELSE "body"
            /\ UNCHANGED cur
       ELSE /\ cur' = cur - 1
            /\ pc' = "enter"
            /\ UNCHANGED body_input
  /\ UNCHANGED <<input, sib, ps, inv, idx, accum, arg, slot, did_run, val, pollres,
                 polls, cbres, result, outcome, acc, log>>

\* An innermost absorber whose re-entered loop runs the break_aborter with
\* the default value.
LoopReentryAborts ==
  /\ pc = "loop"
  /\ did_run[cur]
  /\ IF cur = 0
       THEN /\ val' = Default(input.iter)
            /\ pc' = "broke"
            /\ UNCHANGED slot
       ELSE /\ slot' = Some(ContinueResolution(input, cur))
            /\ pc' = "suspend"
            /\ UNCHANGED val
  /\ UNCHANGED <<input, sib, ps, inv, idx, accum, arg, body_input, did_run, cur, pollres,
                 polls, cbres, result, outcome, acc, log>>

\* Head of a layer's loop, entered again by a `continue`: the innermost
\* absorber leaves its block with Default::default(), a loop-capable label's
\* layer runs its continue_aborter.
LoopReentry ==
  /\ pc = "loop"
  /\ did_run[cur]
  /\ IF cur = 0
       THEN /\ val' = Default(input.iter)
            /\ pc' = "exit"
            /\ UNCHANGED slot
       ELSE /\ slot' = Some(ContinueResolution(input, cur))
            /\ pc' = "suspend"
            /\ UNCHANGED val
  /\ UNCHANGED <<input, sib, ps, inv, idx, accum, arg, body_input, did_run, cur, pollres,
                 polls, cbres, result, outcome, acc, log>>

\* An innermost absorber whose optional label sits on its outer block: a
\* break to the loop label then leaves the block like a completion.
BreakLandingLabelOnBlock(in, l) ==
  IF l # "" /\ l = in.label THEN "exit" ELSE "broke"

\* Where a `break` naming lifetime l lands in its layer: the lifetime sits
\* on the layer's loop (or inner block), so the break leaves that loop with
\* a value and falls into the layer's break_aborter.
BreakLanding(in, l) == "broke"

\* Where the body's action takes control: a completion leaves the innermost
\* block with the body's value, a `return` finishes the async block, a break
\* or continue goes to the layer its label resolves to, an await of a future
\* that is not ready suspends the async block.
Body ==
  /\ pc = "body"
  /\ \E a \in BodyActs(input, arg, acc) :
       /\ acc' = acc + a.eff
       /\ log' = Append(log, [elem |-> arg.value, accum |-> arg.accum,
                              act |-> a, ret |-> Cont(0), done |-> FALSE])
       /\ CASE a.k = "complete" ->
                 /\ val' = a.val
                 /\ pc' = "exit"
                 /\ UNCHANGED <<cur, pollres>>
            [] a.k = "return" ->
                 /\ pollres' = PollReady(a.val)
                 /\ pc' = "polled"
                 /\ UNCHANGED <<cur, val>>
            [] a.k = "break" ->
                 /\ cur' = TargetLayer(input, a.lt)
                 /\ val' = a.val
                 /\ pc' = BreakLanding(input, a.lt)
                 /\ UNCHANGED pollres
            [] a.k = "continue" ->
                 /\ cur' = TargetLayer(input, a.lt)
                 /\ pc' = "loop"
                 /\ UNCHANGED <<val, pollres>>
            [] a.k = "await" ->
                 /\ pollres' = PollPending
                 /\ pc' = "polled"
                 /\ UNCHANGED <<cur, val>>
  /\ UNCHANGED <<input, sib, ps, inv, idx, accum, arg, body_input, slot, did_run, polls,
                 cbres, result, outcome>>

\* A layer that was left normally hands its value to the layer around it
\* (`break 'outer_label result`); past the outermost layer the value is
\* end_result and the termination_aborter records it.
LayerExit ==
  /\ pc = "exit"
  /\ IF cur < NumLayers
       THEN /\ cur' = cur + 1
            /\ UNCHANGED <<slot, pc>>
       ELSE /\ slot' = Some(TerminationResolution(val))
            /\ pc' = "suspend"
            /\ UNCHANGED cur
  /\ UNCHANGED <<input, sib, ps, inv, idx, accum, arg, body_input, did_run, val, pollres,
                 polls, cbres, result, outcome, acc, log>>

\* A break_aborter that suspends without recording its resolution.
LayerBrokeNoRecord ==
  /\ pc = "broke"
  /\ pc' = "suspend"
  /\ UNCHANGED <<input, sib, ps, inv, idx, accum, arg, body_input, slot, did_run, cur,
                 val, pollres, polls, cbres, result, outcome, acc, log>>

\* A break_aborter without its suspension: after recording, control falls
\* out of the layer as if it had completed.
LayerBrokeFallsThrough ==
  /\ pc = "broke"
  /\ slot' = Some(BreakResolution(input, cur, val))
  /\ pc' = "exit"
  /\ UNCHANGED <<input, sib, ps, inv, idx, accum, arg, body_input, did_run, cur, val,
                 pollres, polls, cbres, result, outcome, acc, log>>

\* A layer whose loop or block was broken out of runs its break_aborter.
LayerBroke ==
  /\ pc = "broke"
  /\ slot' = Some(BreakResolution(input, cur, val))
  /\ pc' = "suspend"
  /\ UNCHANGED <<input, sib, ps, inv, idx, accum, arg, body_input, did_run, cur, val,
                 pollres, polls, cbres, result, outcome, acc, log>>

\* An aborter that awaits a future which is ready at once: the block runs
\* on into `unreachable!()`.
SuspendIsReady ==
  /\ pc = "suspend"
  /\ pc' = "panicked"
  /\ UNCHANGED <<input, sib, ps, inv, idx, accum, arg, body_input, slot, did_run, cur,
                 val, pollres, polls, cbres, result, outcome, acc, log>>

\* aborter, second half: `future::pending::<()>().await` suspends the async
\* block, so the poll returns Pending.
Suspend ==
  /\ pc = "suspend"
  /\ pollres' = PollPending
  /\ pc' = "polled"
  /\ UNCHANGED <<input, sib, ps, inv, idx, accum, arg, body_input, slot, did_run, cur,
                 val, polls, cbres, result, outcome, acc, log>>

\* A relay that takes a finished poll for the body's normal completion.
RelayMatchReadyIsContinue(pr, sl) ==
  IF pr.p = "Ready" THEN Some(Cont(pr.val)) ELSE sl

\* A relay that answers a suspension with an empty slot by a default
\* Continue instead of panicking.
RelayMatchUnwrapOrDefault(pr, sl) ==
  IF pr.p = "Ready" THEN Some(Brk("EarlyReturn", "", pr.val))
  ELSE IF sl = None THEN Some(Cont(0)) ELSE sl

\* A relay that wraps whatever the slot holds as a break of the virtual
\* loop whenever the poll is Pending.
RelayMatchPendingIsBreak(pr, sl) ==
  IF pr.p = "Ready" THEN Some(Brk("EarlyReturn", "", pr.val))
  ELSE IF sl = None THEN None
  ELSE IF sl[1].cf = "Continue" THEN Some(Brk("EarlyBreak", "", sl[1].val))
  ELSE sl

\* The closure's match on the poll, as an Option: Ready(v) is an early
\* return, Pending is answered by `how_to_resolve_pending.expect(..)`,
\* which panics on None (the result None stands for the panic).
RelayMatch(pr, sl) ==
  IF pr.p = "Ready" THEN Some(Brk("EarlyReturn", "", pr.val)) ELSE sl

MarkDone(lg, r) ==
  [lg EXCEPT ![Len(lg)] = [@ EXCEPT !.ret = r, !.done = TRUE]]

\* A relay that drives the async block like an executor: on Pending it
\* polls again, which resumes the block behind the suspension point, where
\* `unreachable!()` panics.
RelayReturnPollsAgain ==
  /\ pc = "polled"
  /\ RelayMatch(pollres, slot) # None
  /\ IF pollres.p = "Pending"
       THEN /\ polls' = polls + 1
            /\ pc' = "panicked"
            /\ UNCHANGED <<cbres, log>>
       ELSE /\ cbres' = RelayMatch(pollres, slot)[1]
            /\ log' = MarkDone(log, RelayMatch(pollres, slot)[1])
            /\ pc' = "ret"
            /\ UNCHANGED polls
  /\ UNCHANGED <<input, sib, ps, inv, idx, accum, arg, body_input, slot, did_run, cur,
                 val, pollres, result, outcome, acc>>

\* The closure returns the matched value to the iterator.
RelayReturn ==
  /\ pc = "polled"
  /\ RelayMatch(pollres, slot) # None
  /\ cbres' = RelayMatch(pollres, slot)[1]
  /\ log' = MarkDone(log, RelayMatch(pollres, slot)[1])
  /\ pc' = "ret"
  /\ UNCHANGED <<input, sib, ps, inv, idx, accum, arg, body_input, slot, did_run, cur,
                 val, pollres, polls, result, outcome, acc>>

\* The closure panics with "the async block in a cbit iterator is an
\* implementation detail; do not `.await` in it!".
RelayPanic ==
  /\ pc = "polled"
  /\ RelayMatch(pollres, slot) = None
  /\ pc' = "panicked"
  /\ UNCHANGED <<input, sib, ps, inv, idx, accum, arg, body_input, slot, did_run, cur,
                 val, pollres, polls, cbres, result, outcome, acc, log>>

\* ------------------------------------------------------------------------
\* The dispatch
\* ------------------------------------------------------------------------
\* A dispatch whose EarlyBreak arm returns from the enclosing function.
DispatchOutcomeBreakReturns(labels, res) ==
  IF res.cf = "Continue" THEN Outcome("value", "", res.val)
  ELSE IF res.tag = "EarlyReturn" THEN Outcome("return", "", res.val)
  ELSE IF res.tag = "EarlyBreak" THEN Outcome("return", "", res.val)
  ELSE IF res.tag = "BreakTo" /\ res.lt \in BreakTargets(labels)
    THEN Outcome("break", res.lt, res.val)
  ELSE IF res.tag = "ContinueTo" /\ res.lt \in ContinueTargets(labels)
    THEN Outcome("continue", res.lt, 0)
  ELSE Outcome("nomatch", "", 0)

\* The final match on the iterator's result: one arm for EarlyReturn, one
\* for EarlyBreak, one break arm per declared label, one continue arm per
\* label declared with `loop`, and the arm for Continue.
DispatchOutcome(labels, res) ==
  IF res.cf = "Continue" THEN Outcome("value", "", res.val)
  ELSE IF res.tag = "EarlyReturn" THEN Outcome("return", "", res.val)
  ELSE IF res.tag = "EarlyBreak" THEN Outcome("value", "", res.val)
  ELSE IF res.tag = "BreakTo" /\ res.lt \in BreakTargets(labels)
    THEN Outcome("break", res.lt, res.val)
  ELSE IF res.tag = "ContinueTo" /\ res.lt \in ContinueTargets(labels)
    THEN Outcome("continue", res.lt, 0)
  ELSE Outcome("nomatch", "", 0)

Dispatch ==
  /\ pc = "dispatch"
  /\ outcome' = DispatchOutcome(input.labels, result)
  /\ pc' = "done"
  /\ UNCHANGED <<input, sib, ps, inv, idx, accum, arg, body_input, slot, did_run, cur,
                 val, pollres, polls, cbres, result, acc, log>>

\* A replayed `continue 'label` starts the next iteration of the enclosing
\* native loop, which executes the construct again (examples/what.rs,
\* examples/simple.rs).
NativeContinue ==
  /\ pc = "done"
  /\ outcome.kind = "continue"
  /\ inv < MaxInv
  /\ pc' = "call"
  /\ UNCHANGED <<input, sib, ps, inv, idx, accum, arg, body_input, slot, did_run, cur,
                 val, pollres, polls, cbres, result, outcome, acc, log>>

Next ==
  \/ DriverCall
  \/ IterDeliver
  \/ IterFinish
  \/ IterRecv
  \/ ClosurePrologue
  \/ Poll
  \/ EnterLayer
  \/ LoopFirstPass
  \/ LoopReentry
  \/ Body
  \/ LayerExit
  \/ LayerBroke
  \/ Suspend
  \/ RelayReturn
  \/ RelayPanic
  \/ Dispatch
  \/ NativeContinue

Spec == Init /\ [][Next]_vars

\* ------------------------------------------------------------------------
\* Parsing (CbitForExpr::parse, field by field)
\* ------------------------------------------------------------------------
\* `label: input.parse()?` for Option<Label>: taken when a label is next.
ParseLabel ==
  /\ ps.stage = "label"
  /\ ps' = IF Peek(ps) = "label"
             THEN [Advance(ps) EXCEPT !.label = TRUE, !.stage = "kw_for"]
             ELSE [ps EXCEPT !.stage = "kw_for"]
  /\ UNCHANGED <<input, sib, pc, inv, idx, accum, arg, body_input, slot,
                 did_run, cur, val, pollres, polls, cbres, result, outcome,
                 acc, log>>

\* `_kw_for: input.parse()?`
ParseFor ==
  /\ ps.stage = "kw_for"
  /\ ps' = IF Peek(ps) = "for" THEN [Advance(ps) EXCEPT !.stage = "pat"]
           ELSE Fail(ps, "expected for")
  /\ UNCHANGED <<input, sib, pc, inv, idx, accum, arg, body_input, slot,
                 did_run, cur, val, pollres, polls, cbres, result, outcome,
                 acc, log>>

\* `body_pattern: Pat::parse_single(input)?`
ParsePat ==
  /\ ps.stage = "pat"
  /\ ps' = IF Peek(ps) = "pat" THEN [Advance(ps) EXCEPT !.stage = "kw_in"]
           ELSE Fail(ps, "expected pattern")
  /\ UNCHANGED <<input, sib, pc, inv, idx, accum, arg, body_input, slot,
                 did_run, cur, val, pollres, polls, cbres, result, outcome,
                 acc, log>>

\* `_kw_in: input.parse()?`
ParseIn ==
  /\ ps.stage = "kw_in"
  /\ ps' = IF Peek(ps) = "in" THEN [Advance(ps) EXCEPT !.stage = "call"]
           ELSE Fail(ps, "expected in")
  /\ UNCHANGED <<input, sib, pc, inv, idx, accum, arg, body_input, slot,
                 did_run, cur, val, pollres, polls, cbres, result, outcome,
                 acc, log>>

\* A parser that takes any expression as the call.
AnyCallExprAnyShape(shape) ==
  IF shape = "mcall" THEN Some("Method") ELSE Some("Function")

\* AnyCallExpr::parse, the match on the parsed expression: Expr::Call gives
\* Function, Expr::MethodCall gives Method, anything else the error.
AnyCallExpr(shape) ==
  CASE shape = "call" -> Some("Function")
    [] shape = "mcall" -> Some("Method")
    [] OTHER -> None

\* `call: input.parse()?`: `input.parse::<Expr>()?` fails when no expression
\* is next; a parsed expression is classified by its shape.
ParseCall ==
  /\ ps.stage = "call"
  /\ ps' = IF Peek(ps) \notin ExprShapes THEN Fail(ps, "expected expression")
           ELSE IF AnyCallExpr(Peek(ps)) = None
             THEN Fail(Advance(ps), "expected a function or method call")
           ELSE [Advance(ps) EXCEPT !.call = AnyCallExpr(Peek(ps))[1],
                                    !.expr = ps.src.site,
                                    !.stage = "breaks"]
  /\ UNCHANGED <<input, sib, pc, inv, idx, accum, arg, body_input, slot,
                 did_run, cur, val, pollres, polls, cbres, result, outcome,
                 acc, log>>

\* CbitForExprBreaks::parse: without the `break` keyword the clause is None;
\* with it, Punctuated::parse_separated_nonempty starts with a value.
ParseBreaks ==
  /\ ps.stage = "breaks"
  /\ ps' = IF Peek(ps) = "break"
             THEN [Advance(ps) EXCEPT !.kw_break = TRUE, !.breaks = Some(<<>>),
                                      !.stage = "single_break"]
             ELSE [ps EXCEPT !.stage = "body"]
  /\ UNCHANGED <<input, sib, pc, inv, idx, accum, arg, body_input, slot,
                 did_run, cur, val, pollres, polls, cbres, result, outcome,
                 acc, log>>

\* CbitForExprSingleBreak::parse: an optional `loop`, then a lifetime.
ParseSingleBreak ==
  /\ ps.stage = "single_break"
  /\ LET kw_loop == Peek(ps) = "loop"
         p == IF kw_loop THEN Advance(ps) ELSE ps
     IN ps' = IF Peek(p) \in Lifetimes
                THEN [Advance(p) EXCEPT
                        !.breaks = Some(Append(@[1],
                                     [lt |-> LifetimeName(Peek(p)),
                                      kw_loop |-> kw_loop])),
                        !.stage = "punct"]
                ELSE Fail(p, "expected lifetime")
  /\ UNCHANGED <<input, sib, pc, inv, idx, accum, arg, body_input, slot,
                 did_run, cur, val, pollres, polls, cbres, result, outcome,
                 acc, log>>

\* A list that may end in a comma (Punctuated::parse_terminated).
ParsePunctTerminated ==
  /\ ps.stage = "punct"
  /\ ps' = IF Peek(ps) = ","
             THEN IF Peek(Advance(ps)) \in Lifetimes \cup {"loop"}
                    THEN [Advance(ps) EXCEPT !.stage = "single_break"]
                    ELSE [Advance(ps) EXCEPT !.stage = "body"]
             ELSE [ps EXCEPT !.stage = "body"]
  /\ UNCHANGED <<input, sib, pc, inv, idx, accum, arg, body_input, slot,
                 did_run, cur, val, pollres, polls, cbres, result, outcome,
                 acc, log>>

\* Punctuated::parse_separated_nonempty after a value: the list ends unless
\* a comma is next; after a comma another value has to follow.
ParsePunct ==
  /\ ps.stage = "punct"
  /\ ps' = IF Peek(ps) = ","
             THEN [Advance(ps) EXCEPT !.stage = "single_break"]
             ELSE [ps EXCEPT !.stage = "body"]
  /\ UNCHANGED <<input, sib, pc, inv, idx, accum, arg, body_input, slot,
                 did_run, cur, val, pollres, polls, cbres, result, outcome,
                 acc, log>>

\* `body: input.parse()?` for OpaqueBody: `braced!(body in input)`.
ParseBody ==
  /\ ps.stage = "body"
  /\ ps' = IF Peek(ps) = "body"
             THEN [Advance(ps) EXCEPT !.body = TRUE, !.stage = "end"]
             ELSE Fail(ps, "expected curly braces")
  /\ UNCHANGED <<input, sib, pc, inv, idx, accum, arg, body_input, slot,
                 did_run, cur, val, pollres, polls, cbres, result, outcome,
                 acc, log>>

\* parse_macro_input!: the parsed value is the macro's input only if no
\* token is left over.
ParseEnd ==
  /\ ps.stage = "end"
  /\ ps' = IF Peek(ps) = "eof" THEN [ps EXCEPT !.stage = "ok"]
           ELSE Fail(ps, "unexpected token")
  /\ UNCHANGED <<input, sib, pc, inv, idx, accum, arg, body_input, slot,
                 did_run, cur, val, pollres, polls, cbres, result, outcome,
                 acc, log>>

\* The `lt` list of a parsed macro input (in_break_labels): the entries of
\* the break clause, none without one.
EscapeLabels(p) == IF p.breaks = None THEN <<>> ELSE p.breaks[1]

NoCallSite == [attrs |-> <<>>, callee |-> <<>>, args |-> <<>>]

\* A call site with the closure in front of the explicit arguments.
DriverCallSiteClosureFirst(kind, x) ==
  [attrs |-> x.attrs,
   callee |-> IF kind = "Function" THEN <<x.func>>
              ELSE <<x.receiver, ".", x.method, x.turbo>>,
   args |-> <<"closure">> \o x.args]

\* driver_call_site: `#(#driver_attrs)* let result = f(#(#args,)* #for_body);`
\* or `.. = receiver.method turbofish (#(#args,)* #for_body);`.
DriverCallSite(kind, x) ==
  [attrs |-> x.attrs,
   callee |-> IF kind = "Function" THEN <<x.func>>
              ELSE <<x.receiver, ".", x.method, x.turbo>>,
   args |-> x.args \o <<"closure">>]

\* What the macro returns: the expansion or a compile_error!.
Expansion(p) ==
  [kind |-> "expansion", msg |-> "",
   enum |-> ControlFlowEnum(EscapeLabels(p)),
   call_site |-> DriverCallSite(p.call, p.expr),
   arms |-> DispatchArms(EscapeLabels(p))]

CompileError(msg) ==
  [kind |-> "compile_error", msg |-> msg, enum |-> <<>>,
   call_site |-> NoCallSite, arms |-> <<>>]

\* parse_macro_input!, Err arm: the macro returns the error as a
\* compile_error! and nothing else of cbit runs.
ParseError ==
  /\ ps.stage = "err"
  /\ ps.out = None
  /\ ps' = [ps EXCEPT !.out = Some(CompileError(ps.err))]
  /\ UNCHANGED <<input, sib, pc, inv, idx, accum, arg, body_input, slot,
                 did_run, cur, val, pollres, polls, cbres, result, outcome,
                 acc, log>>

\* A macro that expands whatever has been parsed when the error occurs.
ExpandRecovering ==
  /\ ps.stage \in {"ok", "err"}
  /\ ps.out = None
  /\ ps' = [ps EXCEPT !.out = Some(Expansion(ps))]
  /\ UNCHANGED <<input, sib, pc, inv, idx, accum, arg, body_input, slot,
                 did_run, cur, val, pollres, polls, cbres, result, outcome,
                 acc, log>>

\* The code generation of cbit on the parsed input: the enum, the driver
\* call site and the final match.
Expand ==
  /\ ps.stage = "ok"
  /\ ps.out = None
  /\ ps' = [ps EXCEPT !.out = Some(Expansion(ps))]
  /\ UNCHANGED <<input, sib, pc, inv, idx, accum, arg, body_input, slot,
                 did_run, cur, val, pollres, polls, cbres, result, outcome,
                 acc, log>>

InitParse ==
  /\ InitRun
  /\ input = [label |-> "", labels |-> <<>>, iter |-> "up_to",
              elems |-> UpToElems(0), init |-> UnitVal, body |-> "sum"]
  /\ ps \in ParseInputs

NextParse ==
  \/ ParseLabel
  \/ ParseFor
  \/ ParsePat
  \/ ParseIn
  \/ ParseCall
  \/ ParseBreaks
  \/ ParseSingleBreak
  \/ ParsePunct
  \/ ParseBody
  \/ ParseEnd
  \/ ParseError
  \/ Expand

SpecParse == InitParse /\ [][NextParse]_vars

\* ------------------------------------------------------------------------
\* Sibling expansions
\* ------------------------------------------------------------------------
\* Each expansion is one block expression `{ enum ..; type ..; match .. }`
\* inside its own labeled scope; when it yields a value or breaks to a
\* label, control goes on to the code after it, here the next expansion.
\* Every sibling declares the label 'X, as a loop or as a block.
SibInputs ==
  {[label |-> "", labels |-> <<[lt |-> "X", kw_loop |-> b]>>, iter |-> "up_to",
    elems |-> UpToElems(n), init |-> UnitVal, body |-> "generic"] :
     b \in BOOLEAN, n \in 0..MaxSib}

InitSib == Init /\ input \in SibInputs

\* The next sibling starts.  Nothing of the finished expansion is cleared:
\* whatever the next one reads it has to have written itself.
NextSibling ==
  /\ pc = "done"
  /\ outcome.kind \in {"value", "break"}
  /\ Len(sib) < MaxSib
  /\ input' \in SibInputs
  /\ sib' = Append(sib, [input |-> input, slot |-> slot, result |-> result,
                         outcome |-> outcome])
  /\ pc' = "call"
  /\ inv' = 0
  /\ UNCHANGED <<ps, idx, accum, arg, body_input, slot, did_run, cur, val,
                 pollres, polls, cbres, result, outcome, acc, log>>

NextSib == Next \/ NextSibling

SpecSib == InitSib /\ [][NextSib]_vars

\* The generated code is sequential: whichever step is enabled is taken.
SpecLive == Init /\ [][Next]_vars /\ WF_vars(Next)

TypeOK ==
  /\ pc \in {"call", "iter", "closure", "poll", "enter", "loop", "body", "exit",
             "broke", "suspend", "polled", "ret", "dispatch", "done", "panicked",
             "unwrap_failed"}
  /\ cur \in 0..MaxLabels
  /\ Len(body_input) <= 1
  /\ Len(slot) <= 1


\* ------------------------------------------------------------------------
\* Reference computations
\* ------------------------------------------------------------------------
\* examples/asm.rs, regular: `for i in 0..n { c += i; }`
RECURSIVE regular(_)
regular(n) == IF n = 0 THEN 0 ELSE regular(n - 1) + (n - 1)

RECURSIVE SumSeq(_)
SumSeq(q) == IF q = <<>> THEN 0 ELSE q[1] + SumSeq(Tail(q))

LogElems == [i \in 1..Len(log) |-> log[i].elem]
LastIdx == Len(log)
\* The element being handled is the last one of the iterator's input.
AfterLast(i) == i < Len(input.elems)

\* ------------------------------------------------------------------------
\* Properties
\* ------------------------------------------------------------------------

\* C1: when the body executes `return v` on an element, the closure hands
\* Break(EarlyReturn(v)) to the iterator, no later element is delivered, and
\* the dispatch replays `return v` from the enclosing function.
C1_EarlyReturn ==
  \A i \in 1..Len(log) :
    log[i].act.k = "return" =>
      /\ i = Len(log)
      /\ pc \in {"polled", "ret", "dispatch", "done"}
      /\ log[i].done => log[i].ret = Brk("EarlyReturn", "", log[i].act.val)
      /\ pc \in {"dispatch", "done"} =>
           result = Brk("EarlyReturn", "", log[i].act.val)
      /\ pc = "done" => outcome = Outcome("return", "", log[i].act.val)

C1_Witness ==
  /\ pc = "done"
  /\ outcome = Outcome("return", "", 91)
  /\ Len(log) = 2
  /\ Len(input.elems) > 2
  /\ log[2].act.k = "return"

\* C2: when the body executes an unlabeled `break v` on element k, the
\* construct evaluates to v, exactly the elements e1..ek were delivered, and
\* for a body that adds each completed element to acc the total is that of
\* e1..e(k-1) (up_to(5) with a break at element 3 leaves acc = 0+1+2).
C2_UnlabeledBreak ==
  \A i \in 1..Len(log) :
    (log[i].act.k = "break" /\ log[i].act.lt = "") =>
      /\ i = Len(log)
      /\ LogElems = SubSeq(input.elems, 1, i)
      /\ pc \in {"broke", "suspend", "polled", "ret", "dispatch", "done"}
      /\ log[i].done => log[i].ret = Brk("EarlyBreak", "", log[i].act.val)
      /\ pc = "done" => outcome = Outcome("value", "", log[i].act.val)
      /\ (/\ input.body = "generic"
          /\ inv = 1
          /\ \A j \in 1..(i - 1) : log[j].act.k = "complete")
         => acc = SumSeq(SubSeq(input.elems, 1, i - 1))

C2_Witness ==
  /\ pc = "done"
  /\ input.iter = "up_to"
  /\ Len(input.elems) = 5
  /\ input.body = "generic"
  /\ Len(log) = 4
  /\ \A j \in 1..3 : log[j].act.k = "complete"
  /\ log[4].act.k = "break" /\ log[4].act.lt = "" /\ log[4].elem = 3
  /\ acc = 3
  /\ outcome.kind = "value"

\* C3: when no run of the body escapes, the callback is invoked once per
\* element in order, each invocation returns Continue with the body's value,
\* and once the iterator is exhausted the construct's value is the
\* iterator's own Continue result: unit for up_to, for reduce the value the
\* in-line loop `accum = body(accum, value)` ends with; acc is what the
\* in-line loop leaves (regular(n) for `c += i` over up_to(n)).
C3_NormalCompletion ==
  (\A i \in 1..Len(log) : log[i].act.k = "complete") =>
      /\ LogElems = SubSeq(input.elems, 1, Len(log))
      /\ pc # "panicked"
      /\ \A i \in 1..Len(log) :
           /\ log[i].done => log[i].ret = Cont(log[i].act.val)
           /\ i < Len(log) => log[i].done
      /\ pc \in {"dispatch", "done"} =>
           /\ Len(log) = Len(input.elems)
           /\ result.cf = "Continue"
      /\ pc = "done" =>
           /\ outcome.kind = "value"
           /\ outcome.val =
                IF input.iter = "up_to" THEN UnitVal
                ELSE IF Len(log) = 0 THEN input.init
                ELSE log[Len(log)].act.val
           /\ input.body = "reduce_demo" => outcome.val = SumSeq(input.elems)
           /\ (input.iter = "up_to" /\ inv = 1) =>
                acc = regular(Len(input.elems))

C3_Witness ==
  /\ pc = "done"
  /\ input.body = "sum"
  /\ Len(input.elems) = 5
  /\ Len(log) = 5
  /\ acc = 10
  /\ outcome = Outcome("value", "", UnitVal)

C3_WitnessEmpty ==
  /\ pc = "done"
  /\ Len(input.elems) = 0
  /\ outcome.kind = "value"

\* C4: when the body executes an unlabeled `continue` on element k, nothing
\* of the body after it runs, the closure returns Continue with the default
\* value of the continue-value type, and the iterator goes on: it is next
\* seen at element k+1, and it finishes only by exhausting its elements.
C4_Continue ==
  \A i \in 1..Len(log) :
    (log[i].act.k = "continue" /\ log[i].act.lt = "") =>
      /\ log[i].act.eff = 0
      /\ log[i].done => log[i].ret = Cont(Default(input.iter))
      /\ i < Len(log) => log[i].done /\ log[i + 1].elem = input.elems[i + 1]
      /\ i = Len(log) =>
           /\ pc \notin {"broke", "panicked"}
           /\ pc = "iter" => idx = i + 1
           /\ pc \in {"dispatch", "done"} =>
                /\ i = Len(input.elems)
                /\ result = IterFinalResult(input, Default(input.iter))

C4_Witness ==
  /\ Len(log) = 3
  /\ log[2].act.k = "continue" /\ log[2].act.lt = ""
  /\ log[2].done /\ log[2].ret = Cont(0)
  /\ log[3].elem = input.elems[3]
  /\ input.labels # <<>>

\* C5: when the body executes `break 'X v` for a declared external label on
\* element k, wherever 'X stands among the declared labels, the closure
\* returns Break(BreakTo('X, v)), no later element is delivered, and the
\* dispatch replays `break 'X v`.
C5_ExternalBreak ==
  \A i \in 1..Len(log) :
    (log[i].act.k = "break" /\ log[i].act.lt \in BreakTargets(input.labels)) =>
      /\ i = Len(log)
      /\ pc \in {"broke", "suspend", "polled", "ret", "dispatch", "done"}
      /\ log[i].done =>
           log[i].ret = Brk("BreakTo", log[i].act.lt, log[i].act.val)
      /\ pc \in {"dispatch", "done"} =>
           result = Brk("BreakTo", log[i].act.lt, log[i].act.val)
      /\ pc = "done" =>
           outcome = Outcome("break", log[i].act.lt, log[i].act.val)

C5_Witness ==
  /\ pc = "done"
  /\ Len(input.labels) = 2
  /\ Len(log) = 2
  /\ Len(input.elems) > 2
  /\ log[2].act.k = "break"
  /\ log[2].act.lt = input.labels[2].lt
  /\ outcome = Outcome("break", input.labels[2].lt, 11)

\* C6: when the body executes `continue 'Y` for a label declared with
\* `loop` on element k, the closure returns Break(ContinueTo('Y)), no later
\* element is delivered in this execution of the construct, and the dispatch
\* replays `continue 'Y` (the enclosing loop then starts its next
\* iteration).
C6_ExternalContinue ==
  \A i \in 1..Len(log) :
    (log[i].act.k = "continue"
       /\ log[i].act.lt \in ContinueTargets(input.labels)) =>
      /\ i = Len(log)
      /\ pc \in {"loop", "suspend", "polled", "ret", "dispatch", "done", "call"}
      /\ log[i].done => log[i].ret = Brk("ContinueTo", log[i].act.lt, 0)
      /\ pc \in {"dispatch", "done", "call"} =>
           result = Brk("ContinueTo", log[i].act.lt, 0)
      /\ pc \in {"done", "call"} =>
           outcome = Outcome("continue", log[i].act.lt, 0)

C6_Witness ==
  /\ pc = "call"
  /\ inv = 1
  /\ Len(log) = 2
  /\ Len(input.elems) > 2
  /\ Len(input.labels) = 2
  /\ log[2].act.k = "continue"
  /\ log[2].act.lt = input.labels[1].lt
  /\ outcome.kind = "continue"

\* C7: reduce(0, list) with the body `if v > 100 { break -1 }; accum + v`
\* evaluates to -1 when some element exceeds 100 and to the sum of the list
\* otherwise; the value the body produces for an element is the Continue
\* value the closure returns and the accumulator bound for the next element.
C7_Reduce ==
  input.body = "reduce_demo" =>
      /\ \A i \in 1..Len(log) :
           /\ log[i].accum = SumSeq(SubSeq(input.elems, 1, i - 1))
           /\ (log[i].done /\ log[i].act.k = "complete") =>
                log[i].ret = Cont(log[i].act.val)
           /\ (i < Len(log)) => log[i + 1].accum = log[i].act.val
      /\ pc = "done" =>
           /\ outcome.kind = "value"
           /\ outcome.val =
                IF \E j \in 1..Len(input.elems) : input.elems[j] > 100
                  THEN -1 ELSE SumSeq(input.elems)

C7_Witness ==
  /\ input.body = "reduce_demo"
  /\ pc = "done"
  /\ input.elems = <<2, 101>>
  /\ Len(log) = 2
  /\ outcome = Outcome("value", "", -1)

C7_WitnessSum ==
  /\ input.body = "reduce_demo"
  /\ pc = "done"
  /\ input.elems = <<1, 2>>
  /\ outcome = Outcome("value", "", 3)

\* C8: the dispatch yields a value for the construct exactly when the
\* iterator returned Continue(v) or Break(EarlyBreak(v)), and the value is
\* that v; for EarlyReturn, BreakTo and ContinueTo it performs the native
\* return, break or continue and yields no value.
C8_ValueProvenance ==
  pc = "done" =>
      /\ outcome.kind = "value" <=>
           (result.cf = "Continue" \/ result.tag = "EarlyBreak")
      /\ outcome.kind = "value" => outcome.val = result.val
      /\ result.tag = "EarlyReturn" => outcome.kind = "return"
      /\ result.tag = "BreakTo" => outcome.kind = "break"
      /\ result.tag = "ContinueTo" => outcome.kind = "continue"
      /\ outcome.kind \in {"value", "return", "break", "continue"}

C8_Witness ==
  /\ pc = "done"
  /\ result = Brk("EarlyBreak", "", 7)
  /\ outcome = Outcome("value", "", 7)
  /\ Len(input.labels) = 2

\* C9: with a label on the virtual loop, `break 'L v` gives the closure
\* result and dispatch of the unlabeled `break v` (EarlyBreak(v), the
\* construct's value), and `continue 'L` those of the unlabeled `continue`
\* (Continue(default), then the next element), whatever external labels are
\* declared; the doc test's demo(5) ends with c = 1 + 3 + 4.
C9_LoopLabel ==
  /\ \A i \in 1..Len(log) :
       (input.label # "" /\ log[i].act.lt = input.label) =>
         /\ log[i].act.k = "break" =>
              /\ i = Len(log)
              /\ pc \in {"broke", "suspend", "polled", "ret", "dispatch", "done"}
              /\ log[i].done =>
                   log[i].ret = Brk("EarlyBreak", "", log[i].act.val)
              /\ pc = "done" => outcome = Outcome("value", "", log[i].act.val)
         /\ log[i].act.k = "continue" =>
              /\ log[i].done => log[i].ret = Cont(Default(input.iter))
              /\ i < Len(log) =>
                   log[i].done /\ log[i + 1].elem = input.elems[i + 1]
              /\ i = Len(log) =>
                   /\ pc \notin {"broke", "panicked"}
                   /\ pc \in {"dispatch", "done"} =>
                        /\ i = Len(input.elems)
                        /\ result = IterFinalResult(input, Default(input.iter))
  /\ (input.body = "doc_me" /\ Len(input.elems) = 5 /\ pc = "done") =>
       acc = 1 + 3 + 4 /\ outcome = Outcome("value", "", UnitVal)

C9_Witness ==
  /\ pc = "done"
  /\ input.label = "me"
  /\ input.labels # <<>>
  /\ Len(log) = 2
  /\ log[1].act.k = "continue" /\ log[1].act.lt = "me"
  /\ log[2].act.k = "break" /\ log[2].act.lt = "me"
  /\ outcome = Outcome("value", "", -1)

C9_WitnessDoc ==
  /\ input.body = "doc_me"
  /\ Len(input.elems) = 5
  /\ pc = "done"
  /\ acc = 8

\* C10: when the body suspends on its own (the poll returns Pending while
\* the slot is empty), the closure panics: it returns nothing to the
\* iterator, no later element is delivered, and no dispatch happens.
C10_RelayMisuse ==
  \A i \in 1..Len(log) :
    log[i].act.k = "await" =>
      /\ i = Len(log)
      /\ ~log[i].done
      /\ slot = None
      /\ pc \in {"polled", "panicked"}
      /\ outcome = NoOutcome

C10_Witness ==
  /\ pc = "panicked"
  /\ Len(log) = 2
  /\ log[2].act.k = "await"
  /\ pollres = PollPending
  /\ slot = None

\* The body's action on the element being handled.
LastAct == log[Len(log)].act
\* The body ran to its end, or skipped to it with a continue of the virtual
\* loop: no absorber's aborter fired.
RanToCompletion(a) ==
  a.k = "complete" \/ (a.k = "continue" /\ TargetLayer(input, a.lt) = 0)

\* C14 (as stated): the closure returns Continue, carrying the final value,
\* exactly when the poll yields a final value, and Break with the recorded
\* reason exactly when the poll yields a suspension.
C14_Original ==
  pc = "ret" =>
      /\ cbres.cf = "Continue" <=> pollres.p = "Ready"
      /\ cbres.cf = "Continue" => cbres.val = pollres.val
      /\ cbres.cf = "Break" <=> pollres.p = "Pending"
      /\ cbres.cf = "Break" => slot = Some(cbres)

\* C14 (amended): the closure returns Break(EarlyReturn(v)) exactly when the
\* poll yields a final value v (the body executed `return v`); when the poll
\* yields a suspension it returns what the slot records, which is Continue
\* with the final value exactly when the layered body ran to completion
\* without any absorber firing, and Break with the recorded reason
\* otherwise.
C14_PollClassification ==
  pc = "ret" =>
      /\ pollres.p \in {"Ready", "Pending"}
      /\ pollres.p = "Ready" <=> cbres = Brk("EarlyReturn", "", pollres.val)
      /\ pollres.p = "Ready" <=> LastAct.k = "return"
      /\ pollres.p = "Pending" => slot = Some(cbres)
      /\ cbres.cf = "Continue" <=>
           (pollres.p = "Pending" /\ RanToCompletion(LastAct))
      /\ cbres.cf = "Continue" =>
           cbres.val = IF LastAct.k = "complete" THEN LastAct.val
                       ELSE Default(input.iter)

C14_Witness ==
  /\ pc = "ret"
  /\ pollres = PollPending
  /\ cbres = Cont(5)
  /\ slot = Some(Cont(5))
  /\ LastAct.k = "complete"
  /\ Len(input.labels) = 2

\* Positions inside the layered body (absorber code and the user's body).
InLayeredBody == pc \in {"enter", "loop", "body", "exit", "broke"}

\* C15: within one callback invocation the slot goes from empty to filled
\* at most once and is never overwritten (it is emptied only by the next
\* invocation's prologue); every write is followed at once by the
\* suspension, and with the slot filled no body or absorber code runs.
C15_WriteOnce ==
  [][ /\ slot' # slot =>
           \/ slot = None /\ slot' # None /\ pc' = "suspend"
           \/ slot' = None /\ pc = "closure"
      /\ pc = "suspend" =>
           /\ slot # None
           /\ pc' = "polled"
           /\ pollres' = PollPending
           /\ UNCHANGED <<slot, acc, did_run, body_input, val, cur, log>>
      /\ (pc = "poll" \/ InLayeredBody) => slot = None
    ]_vars

C15_Witness ==
  /\ pc = "suspend"
  /\ Len(log) = 2
  /\ log[1].done /\ log[1].ret.cf = "Continue"
  /\ slot = Some(Brk("BreakTo", "X", 10))

\* No run of the body so far suspended on its own.
NoOwnSuspension == \A i \in 1..Len(log) : log[i].act.k # "await"

\* C16: for bodies that never suspend on their own, whenever the poll has
\* yielded a suspension the slot holds a recorded outcome: the suspension
\* is reached only right after a record step, and the relay's retrieval
\* never fails.
C16_SlotPresent ==
  NoOwnSuspension =>
      /\ pc = "suspend" => slot # None
      /\ pollres.p = "Pending" => slot # None
      /\ pc = "polled" => RelayMatch(pollres, slot) # None
      /\ pc # "panicked"

C16_Witness ==
  /\ NoOwnSuspension
  /\ pc = "polled"
  /\ pollres = PollPending
  /\ Len(log) = 2
  /\ slot = Some(Brk("ContinueTo", "Y", 0))

\* C17: in every callback invocation the async block is polled exactly
\* once: no poll before the prologue is done, one poll while the layered
\* body runs and when the closure returns, never a second one; once the
\* poll has yielded a suspension control is never again inside the layered
\* body, so nothing behind a suspension point runs.
C17_PollOnce ==
  /\ polls <= 1
  /\ pc = "poll" => polls = 0
  /\ (InLayeredBody \/ pc \in {"suspend", "polled", "ret"}) => polls = 1
  /\ pollres.p = "Pending" => ~InLayeredBody /\ pc \notin {"poll", "suspend"}

C17_Witness ==
  /\ pc = "ret"
  /\ polls = 1
  /\ pollres = PollPending
  /\ Len(log) = 2
  /\ log[1].done /\ log[2].done
  /\ cbres.tag = "EarlyBreak"

\* What the body's action on an element makes the layers record.
ExpectedResolution(in, a) ==
  CASE a.k = "complete" -> Cont(a.val)
    [] a.k = "continue" /\ TargetLayer(in, a.lt) = 0 -> Cont(Default(in.iter))
    [] a.k = "continue" /\ TargetLayer(in, a.lt) # 0 -> Brk("ContinueTo", a.lt, 0)
    [] a.k = "break" /\ TargetLayer(in, a.lt) = 0 -> Brk("EarlyBreak", "", a.val)
    [] a.k = "break" /\ TargetLayer(in, a.lt) # 0 -> Brk("BreakTo", a.lt, a.val)
    [] OTHER -> Cont(0)

\* C18: every callback invocation starts Running: at its poll the slot is
\* empty and the element is in its holder, whatever earlier invocations
\* did; a did_run flag found set at a loop head was set in this invocation
\* by this element's continue; while the layered body runs nothing is
\* recorded yet, and what is recorded afterwards is the resolution of this
\* element's action and stays so until the closure returns.
C18_Reset ==
  /\ pc = "poll" =>
       /\ slot = None
       /\ body_input = Some(arg)
       /\ pollres = PollNone
       /\ polls = 0
  /\ InLayeredBody => slot = None
  /\ (pc = "loop" /\ did_run[cur]) =>
       /\ Len(log) > 0
       /\ ~log[Len(log)].done
       /\ LastAct.k = "continue"
       /\ TargetLayer(input, LastAct.lt) = cur
  /\ (pc \in {"suspend", "polled", "ret"} /\ slot # None) =>
       /\ LastAct.k \in {"complete", "break", "continue"}
       /\ slot = Some(ExpectedResolution(input, LastAct))

C18_Witness ==
  /\ pc = "loop"
  /\ cur = 0
  /\ ~did_run[0]
  /\ slot = None
  /\ Len(log) = 2
  /\ log[2].done
  /\ log[1].act.k = "continue" /\ log[2].act.k = "continue"
  /\ Len(input.labels) = 2

\* The jump of the body's action names a declared external label.
ExternalJump(a) ==
  \/ a.k = "break" /\ a.lt \in BreakTargets(input.labels)
  \/ a.k = "continue" /\ a.lt \in ContinueTargets(input.labels)

\* C19: the layers are nested in declaration order, the innermost absorber
\* inside the layer of the label declared first and the label declared last
\* outermost: a layer is entered only inside all layers of later labels,
\* and the body only inside all layers.  A break or continue naming an
\* external label lands in the layer of exactly that label, and the one
\* thing recorded is that label's BreakTo or ContinueTo: neither the
\* innermost absorber nor another label's layer records anything.
C19_LayerOrder ==
  /\ (pc \in {"enter", "loop", "body"}) =>
       \A j \in (cur + 1)..NumLayers : IsLoopLayer(input, j) => did_run[j]
  /\ pc = "body" => cur = 0 /\ did_run[0]
  /\ pc = "poll" => cur <= NumLayers
  /\ (Len(log) > 0 /\ ~log[Len(log)].done /\ ExternalJump(LastAct)
        /\ pc \in {"broke", "loop", "suspend", "polled"}) =>
       /\ cur \in 1..NumLayers
       /\ input.labels[cur].lt = LastAct.lt
       /\ slot # None =>
            slot = Some(IF LastAct.k = "break"
                          THEN Brk("BreakTo", LastAct.lt, LastAct.val)
                          ELSE Brk("ContinueTo", LastAct.lt, 0))

C19_Witness ==
  /\ pc = "suspend"
  /\ Len(input.labels) = 2
  /\ input.labels[1].kw_loop
  /\ LastAct.k = "break"
  /\ LastAct.lt = input.labels[2].lt
  /\ cur = 2
  /\ did_run[0] /\ did_run[1]
  /\ slot = Some(Brk("BreakTo", input.labels[2].lt, 11))

C19_WitnessInner ==
  /\ pc = "suspend"
  /\ Len(input.labels) = 2
  /\ LastAct.k = "continue"
  /\ LastAct.lt = input.labels[1].lt
  /\ cur = 1
  /\ slot = Some(Brk("ContinueTo", input.labels[1].lt, 0))

SeqRange(q) == {q[i] : i \in 1..Len(q)}
Occurrences(q, x) == Cardinality({i \in 1..Len(q) : q[i] = x})

\* The escape reasons the LoopSpec calls for: the two intrinsic ones, a
\* BreakTo per declared label, a ContinueTo per label with accepts_continue.
EscapeReasons(labels) ==
       {Variant("EarlyReturn", ""), Variant("EarlyBreak", "")}
  \cup {Variant("BreakTo", labels[i].lt) : i \in 1..Len(labels)}
  \cup {Variant("ContinueTo", labels[i].lt) :
          i \in {j \in 1..Len(labels) : labels[j].kw_loop}}

ReasonOf(cf) == Variant(cf.tag, cf.lt)

\* C20: the variants of the generated enum are exactly the escape reasons of
\* the LoopSpec, each once; every reason in the slot, in the closure's
\* result or in the iterator's result is one of them (no ContinueTo for a
\* label that is not loop-capable); and the dispatch has exactly one arm
\* for each of them and no other.
C20_ClosedTaxonomy ==
  LET reasons == EscapeReasons(input.labels)
      enum == ControlFlowEnum(input.labels)
      arms == DispatchArms(input.labels)
  IN /\ SeqRange(enum) = reasons
     /\ \A v \in reasons : Occurrences(enum, v) = 1
     /\ SeqRange(arms) = reasons
     /\ \A v \in reasons : Occurrences(arms, v) = 1
     /\ (slot # None /\ slot[1].cf = "Break") => ReasonOf(slot[1]) \in SeqRange(enum)
     /\ (pc = "ret" /\ cbres.cf = "Break") => ReasonOf(cbres) \in SeqRange(enum)
     /\ (pc \in {"dispatch", "done"} /\ result.cf = "Break") =>
          ReasonOf(result) \in SeqRange(arms)
     /\ pc = "done" => outcome.kind # "nomatch"

C20_Witness ==
  /\ pc = "dispatch"
  /\ Len(input.labels) = 2
  /\ input.labels[1].kw_loop /\ ~input.labels[2].kw_loop
  /\ result = Brk("ContinueTo", input.labels[1].lt, 0)
  /\ Len(ControlFlowEnum(input.labels)) = 5

\* The dispatch a recorded resolution leads to in the expansion `in`.
ExpectedOutcome(in, r) ==
  IF r.cf = "Continue" \/ r.tag = "EarlyBreak" THEN Outcome("value", "", r.val)
  ELSE IF r.tag = "EarlyReturn" THEN Outcome("return", "", r.val)
  ELSE IF r.tag = "BreakTo" THEN Outcome("break", r.lt, r.val)
  ELSE Outcome("continue", r.lt, 0)

\* C13: sibling expansions that declare the same label do not interfere.
\* Whatever an earlier sibling left behind, each callback invocation of an
\* expansion starts with an empty slot; the closure returns, and the
\* iterator's result carries, only what this expansion's own body recorded
\* on the element just delivered; every reason dispatched belongs to this
\* expansion's own enum; the dispatch names only a label this expansion
\* declares, continuing only if this expansion declared it with `loop`;
\* and a body that records nothing panics instead of replaying a sibling's
\* reason.
C13_Siblings ==
  /\ pc = "poll" => slot = None
  /\ pc = "ret" =>
       /\ LastAct.k # "await"
       /\ LastAct.k # "return" => cbres = ExpectedResolution(input, LastAct)
       /\ LastAct.k = "return" => cbres = Brk("EarlyReturn", "", LastAct.val)
  /\ (pc \in {"dispatch", "done"} /\ result.cf = "Break") =>
       /\ log # <<>>
       /\ result = log[Len(log)].ret
       /\ ReasonOf(result) \in SeqRange(ControlFlowEnum(input.labels))
  /\ pc = "done" =>
       /\ outcome = ExpectedOutcome(input, result)
       /\ outcome.kind = "break" => outcome.lt \in BreakTargets(input.labels)
       /\ outcome.kind = "continue" => outcome.lt \in ContinueTargets(input.labels)
  /\ \A k \in 1..Len(sib) :
       /\ sib[k].outcome.kind \in {"value", "break"}
       /\ sib[k].outcome.kind = "break" =>
            sib[k].outcome.lt \in BreakTargets(sib[k].input.labels)

\* The first sibling, which declared 'X as a block, broke to it with 10;
\* the second declares 'X as a loop and continues it.
C13_Witness ==
  /\ Len(sib) = 1
  /\ ~sib[1].input.labels[1].kw_loop
  /\ sib[1].outcome = Outcome("break", "X", 10)
  /\ input.labels[1].kw_loop
  /\ pc = "done"
  /\ outcome = Outcome("continue", "X", 0)

\* The second sibling's body awaits while the first one's recorded reason
\* is still around: the closure panics.
C13_WitnessStale ==
  /\ Len(sib) = 1
  /\ sib[1].result = Brk("BreakTo", "X", 11)
  /\ pc = "panicked"

\* q is a non-empty comma-separated list of `(loop? label)` entries with no
\* trailing comma.
RECURSIVE IsEntryList(_)
IsEntryList(q) ==
  LET n == IF q # <<>> /\ q[1] = "loop" THEN 2 ELSE 1
  IN /\ Len(q) >= n
     /\ q[n] \in Lifetimes
     /\ \/ Len(q) = n
        \/ /\ Len(q) > n
           /\ q[n + 1] = ","
           /\ IsEntryList(SubSeq(q, n + 2, Len(q)))

\* The entries such a list names.
RECURSIVE Entries(_)
Entries(q) ==
  LET n == IF q[1] = "loop" THEN 2 ELSE 1
      e == [lt |-> LifetimeName(q[n]), kw_loop |-> n = 2]
  IN IF Len(q) = n THEN <<e>> ELSE <<e>> \o Entries(SubSeq(q, n + 2, Len(q)))

Parsed == ps.stage = "ok"
ParseOver == ps.stage \in {"ok", "err"}

\* C11: for a call followed by any tokens and the body: without the
\* `break` keyword parsing succeeds only with an empty escape_labels; with
\* it, parsing succeeds exactly when a non-empty comma-separated list of
\* `(loop? label)` entries with no trailing comma follows, and then
\* escape_labels is that list; `break` followed directly by the body and a
\* list ending in a comma are parse errors.
C11_BreakClause ==
  LET c == ps.src.clause IN
  (ps.whole /\ ps.src.expr \in {"call", "mcall"} /\ ParseOver) =>
     /\ (c = <<>> \/ c[1] # "break") =>
          /\ Parsed <=> c = <<>>
          /\ Parsed => (~ps.kw_break /\ EscapeLabels(ps) = <<>>)
     /\ (c # <<>> /\ c[1] = "break") =>
          /\ Parsed <=> IsEntryList(Tail(c))
          /\ Parsed => (ps.kw_break /\ EscapeLabels(ps) = Entries(Tail(c)))
          /\ Tail(c) = <<>> => ~Parsed
          /\ c[Len(c)] = "," => ~Parsed

\* `break loop 'X, 'Y` is parsed into its two entries.
C11_Witness ==
  /\ Parsed
  /\ ps.src.clause = <<"break", "loop", "'X", ",", "'Y">>
  /\ EscapeLabels(ps) = <<[lt |-> "X", kw_loop |-> TRUE],
                          [lt |-> "Y", kw_loop |-> FALSE]>>

\* `break 'X, 'Y,` is rejected where the third entry is missing.
C11_WitnessTrailing ==
  /\ ps.stage = "err"
  /\ ps.whole
  /\ ps.src.clause = <<"break", "'X", ",", "'Y", ",">>
  /\ ps.err = "expected lifetime"

\* `break` directly followed by the body is rejected.
C11_WitnessEmpty ==
  /\ ps.stage = "err"
  /\ ps.whole
  /\ ps.src.clause = <<"break">>
  /\ ps.err = "expected lifetime"

\* C12: the expression after `in` is accepted only if it is a function
\* call or a method call, and is classified as such; every other shape of
\* expression gives the error "expected a function or method call", and no
\* parsed macro input.
C12_CallShape ==
  (ps.whole /\ ps.stage \notin {"label", "kw_for", "pat", "kw_in", "call"}) =>
     /\ ps.src.expr = "call" =>
          (ps.call = "Function" /\ ps.err # "expected a function or method call")
     /\ ps.src.expr = "mcall" =>
          (ps.call = "Method" /\ ps.err # "expected a function or method call")
     /\ ps.src.expr \notin {"call", "mcall"} =>
          /\ ps.stage = "err"
          /\ ps.err = "expected a function or method call"
          /\ ps.call = "" /\ ~ps.body
     /\ Parsed => ps.call = AnyCallExpr(ps.src.expr)[1]

C12_Witness ==
  /\ ps.whole
  /\ ps.src.expr = "try"
  /\ ps.src.clause = <<"break", "'X">>
  /\ ps.stage = "err"
  /\ ps.err = "expected a function or method call"

C12_WitnessMethod ==
  /\ Parsed
  /\ ps.src.expr = "mcall"
  /\ ps.call = "Method"

\* The lifetimes of a list of entries are pairwise distinct.
PairwiseDistinct(q) ==
  \A i, j \in 1..Len(q) : q[i].lt = q[j].lt => i = j

\* C21: every macro input the parser produces has pairwise distinct label
\* identifiers in its break clause; a break clause that names the same
\* label twice is not parsed into a macro input.
C21_DistinctLabels ==
  Parsed => PairwiseDistinct(EscapeLabels(ps))

\* `break 'X, loop 'X` is parsed, into two entries with the same lifetime.
C21_Duplicate ==
  /\ Parsed
  /\ ps.whole
  /\ ps.src.clause = <<"break", "'X", ",", "loop", "'X">>
  /\ EscapeLabels(ps) = <<[lt |-> "X", kw_loop |-> FALSE],
                          [lt |-> "X", kw_loop |-> TRUE]>>

\* The component at which the first n tokens of
\* `'l: for pat in call break loop 'X, 'Y {body}` stop parsing (n < 11).
FirstMissing(n) ==
  CASE n \in {0, 1} -> "kw_for"
    [] n = 2 -> "pat"
    [] n = 3 -> "kw_in"
    [] n = 4 -> "call"
    [] n \in {6, 7, 9} -> "single_break"
    [] OTHER -> "body"

\* C22: parsing ends either with a complete macro input (label if written,
\* binding, call, break clause, body, every token consumed) or with an
\* error at the first component that does not parse, after which no later
\* component is parsed; the macro's code generation (enum, call site,
\* dispatch) runs only on a complete input, and a failed parse gives the
\* error and nothing else.
C22_AllOrNothing ==
  /\ ps.stage = "ok" =>
       /\ ps.pos = Len(ps.toks) + 1
       /\ ps.label <=> ps.toks[1] = "label"
       /\ ps.call \in {"Function", "Method"}
       /\ ps.kw_break <=> ps.breaks # None
       /\ ps.body
       /\ ps.err = "" /\ ps.at = ""
  /\ ps.stage = "err" =>
       /\ ps.err # "" /\ ps.at # ""
       /\ ps.at \in {"kw_for", "pat", "kw_in", "call"} =>
            (ps.call = "" /\ ps.breaks = None)
       /\ ps.at # "end" => ~ps.body
       /\ (ps.src = Canonical /\ Len(ps.toks) < Len(Stream(Canonical))) =>
            (ps.at = FirstMissing(Len(ps.toks)) /\ Peek(ps) = "eof")
       /\ (ps.src = Canonical /\ Len(ps.toks) > Len(Stream(Canonical))) =>
            (ps.at = "end" /\ ps.pos = Len(ps.toks))
       /\ (ps.whole /\ ps.src.expr \notin {"call", "mcall"}) => ps.at = "call"
  /\ ps.out # None =>
       /\ ps.out[1].kind = "expansion" <=> ps.stage = "ok"
       /\ ps.out[1].kind = "compile_error" <=> ps.stage = "err"
       /\ ps.stage = "err" => ps.out[1] = CompileError(ps.err)
  /\ ps.stage \notin {"ok", "err"} => ps.out = None

\* `'l: for pat in call break loop` stops at the entry whose lifetime is
\* missing: label and call were read, and the macro gives only the error.
C22_Witness ==
  /\ ps.src = Canonical
  /\ Len(ps.toks) = 7
  /\ ps.stage = "err"
  /\ ps.at = "single_break"
  /\ ps.label /\ ps.call = "Function" /\ ps.kw_break
  /\ ps.out = Some(CompileError("expected lifetime"))

C22_WitnessComplete ==
  /\ ps.src = Canonical
  /\ ps.whole
  /\ ps.out # None
  /\ ps.out[1].kind = "expansion"

\* C23: for both call shapes the generated call passes every explicit
\* argument of the written call, unchanged and in order, and then the relay
\* closure as its one last argument; the callee (or the receiver, the
\* method name and its type arguments) and the leading attributes are the
\* written ones.
C23_CallSite ==
  (ps.out # None /\ ps.out[1].kind = "expansion") =>
     LET s == ps.src.site
         c == ps.out[1].call_site
         n == Len(s.args)
     IN /\ Len(c.args) = n + 1
        /\ \A i \in 1..n : c.args[i] = s.args[i]
        /\ c.args[n + 1] = "closure"
        /\ Cardinality({i \in 1..Len(c.args) : c.args[i] = "closure"}) = 1
        /\ c.attrs = s.attrs
        /\ ps.src.expr = "call" => c.callee = <<s.func>>
        /\ ps.src.expr = "mcall" =>
             c.callee = <<s.receiver, ".", s.method, s.turbo>>

\* `#[attr_a] Demo.method::<_>(n, list)` becomes a call with three arguments.
C23_Witness ==
  /\ ps.out # None
  /\ ps.out[1].kind = "expansion"
  /\ ps.src.expr = "mcall"
  /\ ps.src.site.attrs = <<"attr_a">>
  /\ ps.src.site.turbo = "::<_>"
  /\ ps.out[1].call_site.args = <<"n", "list", "closure">>

\* `up_to(n)` (examples/asm.rs) becomes `up_to(n, closure)`.
C23_WitnessFunction ==
  /\ ps.out # None
  /\ ps.src = Canonical
  /\ ps.out[1].call_site = [attrs |-> <<>>, callee |-> <<"up_to">>,
                            args |-> <<"n", "closure">>]

\* What holds in every state: the take-and-unwrap has not failed; the
\* body of the i-th callback invocation ran on the i-th element, so it has
\* started at most once per delivery; at the poll the element is in its
\* holder, and from the moment the body starts the holder is empty.
TakenOnce ==
  /\ pc # "unwrap_failed"
  /\ Len(log) <= Len(input.elems)
  /\ \A i \in 1..Len(log) : log[i].elem = input.elems[i]
  /\ pc \in {"closure", "poll", "enter"} => Len(log) = idx - 1
  /\ pc \in {"poll", "enter"} => body_input = Some(arg)
  /\ pc = "body" => (Len(log) = idx - 1 /\ body_input = None /\ did_run[0])
  /\ pc \in {"exit", "broke", "suspend", "polled", "ret"} =>
       (Len(log) = idx /\ body_input = None)

\* What holds of every step: a loop head reached with its did_run flag set
\* leaves at once, without touching the holder and without running body
\* code; the holder is emptied only by the step that starts the body; a
\* body starts only from a loop head whose flag was clear.
ShortCircuit ==
  /\ (pc = "loop" /\ did_run[cur]) =>
       /\ pc' \in {"exit", "suspend"}
       /\ UNCHANGED <<body_input, log, acc, did_run>>
  /\ (body_input # None /\ body_input' = None) => (pc = "loop" /\ pc' = "body")
  /\ (pc # "body" /\ pc' = "body") =>
       (pc = "loop" /\ cur = 0 /\ ~did_run[0] /\ body_input = Some(arg))
  /\ Len(log') > Len(log) => (pc = "body" /\ Len(log') = Len(log) + 1)

\* C24: in every callback invocation the body starts at most once and the
\* delivered element is taken from its holder exactly once, so the
\* take-and-unwrap never fails; after any continue (unlabeled, to the loop
\* label or to an external loop-capable label) the re-entered loop
\* short-circuits on its did_run flag before any body code is reached.
C24_BodyOnce == []TakenOnce /\ [][ShortCircuit]_vars

\* A continue to an external loop-capable label has re-entered that
\* label's loop, the flag is set, and the body of this delivery has run.
C24_Witness ==
  /\ pc = "loop"
  /\ cur > 0
  /\ did_run[cur]
  /\ Len(log) = 2 /\ idx = 2
  /\ LastAct.k = "continue"
  /\ body_input = None

\* The same for the unlabeled continue and the innermost loop.
C24_WitnessInner ==
  /\ pc = "loop"
  /\ cur = 0
  /\ did_run[0]
  /\ LastAct = Act("continue", "", 0, 0)

\* An execution of the construct that has started ends at the dispatch,
\* unless its body suspended on its own.
ReachesDispatch ==
  pc = "call" ~> (pc = "done" \/ (pc = "panicked" /\ ~NoOwnSuspension))

\* At and after the dispatch: the external call has returned its result, the
\* dispatch did exactly one of the four things, and a break or continue
\* names a declared label (a continue one declared with `loop`).
Dispatched ==
  /\ pc = "panicked" => ~NoOwnSuspension
  /\ pc = "dispatch" =>
       /\ outcome = NoOutcome
       /\ \/ result = IterFinalResult(input, accum) /\ idx = Len(input.elems) + 1
          \/ result.cf = "Break" /\ result = cbres /\ idx = Len(log)
  /\ pc = "done" =>
       /\ outcome.kind \in {"value", "return", "break", "continue"}
       /\ outcome.kind = "break" => outcome.lt \in BreakTargets(input.labels)
       /\ outcome.kind = "continue" => outcome.lt \in ContinueTargets(input.labels)
  /\ pc \notin {"done", "call"} => outcome = NoOutcome

\* The dispatch is entered only from the iterator's return, left only by
\* the one step that dispatches, and not entered again in this execution:
\* after it only a replayed `continue` goes on, with a new execution.
DispatchOnce ==
  /\ (pc # "dispatch" /\ pc' = "dispatch") => pc \in {"iter", "ret"}
  /\ (pc = "dispatch" /\ pc' # "dispatch") => (pc' = "done" /\ outcome' # NoOutcome)
  /\ (pc = "done" /\ pc' # "done") =>
       (pc' = "call" /\ outcome.kind = "continue" /\ inv' = inv)
  /\ outcome' # outcome => (pc = "dispatch" \/ pc = "call")
  /\ inv' # inv => (pc = "call" /\ inv' = inv + 1)

\* C25: with a finite iterator and a body that does not suspend on its own,
\* every execution of the construct eventually reaches the dispatch,
\* reaches it once and only after the external call has returned, and
\* there does exactly one of: yield a value, return from the enclosing
\* function, break to a declared label, continue a declared loop label.
C25_TerminalDispatch == ReachesDispatch /\ []Dispatched /\ [][DispatchOnce]_vars

C25_Witness ==
  /\ pc = "done"
  /\ inv = 2
  /\ outcome.kind = "break"
  /\ Len(log) = 2

====
